---------------------------- MODULE Spec2Model ----------------------------
(***************************************************************************)
(* cgmquantify: the day-by-day regridding engine cgms2daybyday             *)
(* (src/src/cgmquantify/utils.py) and the per-subject quantile measure     *)
(* quantile_glu (src/src/cgmquantify/measures.py).                         *)
(*                                                                         *)
(* Both are pure functions of a data frame.  Init draws the data frame     *)
(* from a bounded set; each action applies one function to it, drawing the *)
(* remaining arguments, and records the locals of the call and its outcome.*)
(*                                                                         *)
(* Representation.                                                         *)
(*  - A timestamp is a number of seconds since the midnight of a reference *)
(*    day (the '%Y-%m-%d %H:%M:%S' format has second resolution).  The     *)
(*    code's time differences are floats in minutes; the model keeps them  *)
(*    in seconds, i.e. as the exact rational seconds/60.  All model        *)
(*    timestamps are multiples of 30 s, so the floats are exact.           *)
(*  - A float that results from interpolation is the exact rational        *)
(*    <<num, den>>, den > 0; <<0, 0>> is the float NaN.                    *)
(***************************************************************************)
EXTENDS Integers, Sequences, FiniteSets, TLC

\* Largest number of rows of the input data frame.
MaxRows == 3

\* Missing values of the input columns and the absent optional argument.
NaT == -1
NaN == -2
None == -3

MinutesPerDay == 1440
SecondsPerDay == 86400
SecondsPerMinute == 60
DefaultInterGap == 45
MaxStep == 20
StepUnit == 5

\* Input domains.  23:43:30 of day 0; 00:00:00, 00:00:30 and 01:00:00 of day 1.
Ids == {1, 2}
TimeVals == {85410, 86400, 86430, 90000}
GlVals == {100, 200}
Dt0Args == {None, 19, 50}
InterGaps == {DefaultInterGap, 90}
Tzs == {"UTC", "US/Eastern"}
QuantileArgs == {<<0, 25, 50, 75, 100>>, <<50>>}

Rows == [id : Ids, time : TimeVals \cup {NaT}, gl : GlVals \cup {NaN}]
Frames == UNION {[1..n -> Rows] : n \in 0..MaxRows}

VARIABLES
    df,            \* the data frame passed by the caller
    pc,            \* "called" | "returned" | "raised"
    fn,            \* the function that ran: "cgms2daybyday" | "quantile_glu"
    dt0_arg, inter_gap, tz,   \* the arguments of cgms2daybyday
    err,           \* the exception raised, "" when none
    tr, g,         \* timestamps and glucose values after cleaning (line 65)
    time_diffs,    \* consecutive differences of tr, in seconds
    dt0_in,        \* dt0 when it enters the rounding step (line 73)
    dt0,           \* the resolved dt0 (line 79)
    ndays, time_out, interp, new,
    gd2d, actual_dates,       \* the returned matrix and day-start vector
    quantiles, result         \* argument and result of quantile_glu

vars == <<df, pc, fn, dt0_arg, inter_gap, tz, err, tr, g, time_diffs, dt0_in,
          dt0, ndays, time_out, interp, new, gd2d, actual_dates, quantiles,
          result>>

---------------------------------------------------------------------------
\* Arithmetic helpers.

\* Python's a % b on integers: the result has the sign of b (b # 0).
PyMod(a, b) == IF b > 0 THEN a % b ELSE -((-a) % (-b))

\* ceil(a / b) for b > 0 (np.ceil of a float quotient).
CeilDiv(a, b) == -((-a) \div b)

\* Python's round() of the rational num/den, den > 0: ties go to the even integer.
RoundHalfEven(num, den) ==
    LET q == num \div den
        r == num % den
    IN  IF 2 * r < den THEN q
        ELSE IF 2 * r > den THEN q + 1
        ELSE IF q % 2 = 0 THEN q ELSE q + 1

\* The subsequence of s at the indices in I, in increasing index order.
Take(s, I) ==
    LET F[i \in 0..Len(s)] ==
            IF i = 0 THEN <<>>
            ELSE IF i \in I THEN Append(F[i - 1], s[i]) ELSE F[i - 1]
    IN  F[Len(s)]

\* np.diff
Diff(t) == [i \in 1..(Len(t) - 1) |-> t[i + 1] - t[i]]

\* np.nanmedian of a non-empty sequence without NaN, times two.
Median2(d) ==
    LET s == SortSeq(d, LAMBDA a, b : a < b)
        n == Len(s)
    IN  IF n % 2 = 1 THEN 2 * s[(n + 1) \div 2]
        ELSE s[n \div 2] + s[n \div 2 + 1]

---------------------------------------------------------------------------
\* cgms2daybyday, block by block.

\* Lines 27-30: the strings are parsed as UTC instants, unparsable ones become
\* NaT, and the column is converted to tz (tz = "" skips the conversion).
ToDatetime(d, zone) ==
    [i \in DOMAIN d |->
        [d[i] EXCEPT !.time =
            IF d[i].time = NaT THEN [utc |-> NaT, zone |-> "UTC"]
            ELSE [utc |-> d[i].time,
                  zone |-> IF zone # "" THEN zone ELSE "UTC"]]]

\* Line 31: df.dropna(subset=['time', 'gl'])
DropNa(d) == SelectSeq(d, LAMBDA r : r.time.utc # NaT /\ r.gl # NaN)

\* Lines 34-37: with more than one subject, the first subject's rows are kept.
FirstSubject(d) ==
    IF Cardinality({d[i].id : i \in DOMAIN d}) > 1
    THEN SelectSeq(d, LAMBDA r : r.id = d[1].id)
    ELSE d

\* The rows cgms2daybyday works on, in arrival order (lines 27-37).
Selected(d, zone) == FirstSubject(DropNa(ToDatetime(d, zone)))

\* Line 40: .values of a tz-aware column are the UTC instants.
Values(d) == [i \in DOMAIN d |-> d[i].time.utc]

\* Lines 43-48: rows of tr that are null; where there are some, these are the
\* rows kept (g[~not_bad_conv]).
BadConv(t, x) ==
    LET bad == {i \in DOMAIN t : t[i] = NaT}
    IN  IF bad = {} THEN x ELSE Take(x, bad)

\* Line 55: np.argsort(tr) with the default (unstable) kind: any index order
\* that sorts tr; equal timestamps may come out in any order.
Argsort(t) ==
    {p \in [DOMAIN t -> DOMAIN t] :
        /\ \A i, j \in DOMAIN t : i # j => p[i] # p[j]
        /\ \A i \in 1..(Len(t) - 1) : t[p[i]] <= t[p[i + 1]]}

\* Mutant of SortedIndx: the sort step is skipped.
SortedIndxNoSort(t) == {[i \in DOMAIN t |-> i]}

\* Lines 53-57: the index orders the sort step may apply.
SortedIndx(t) ==
    IF \E i \in DOMAIN Diff(t) : Diff(t)[i] < 0
    THEN Argsort(t)
    ELSE {[i \in DOMAIN t |-> i]}

\* Line 62: np.unique(tr, return_index=True): the index of the first
\* occurrence of each distinct timestamp.
UniqueIndx(t) == {i \in DOMAIN t : \A j \in 1..(i - 1) : t[j] # t[i]}

\* Lines 60-64: duplicate collapse.
Dedup(t, x) ==
    IF \E i \in DOMAIN Diff(t) : Diff(t)[i] = 0
    THEN Take(x, UniqueIndx(t))
    ELSE x

\* Mutant of RoundDt0: a dt0 up to 20 is not rounded to a multiple of 5.
RoundDt0ClampOnly(d0) ==
    IF PyMod(MinutesPerDay, d0) # 0 /\ d0 > MaxStep THEN MaxStep ELSE d0

\* Mutant of RoundDt0: a dt0 up to 20 is always rounded up.
RoundDt0Up(d0) ==
    IF PyMod(MinutesPerDay, d0) # 0
    THEN IF d0 > MaxStep THEN MaxStep
         ELSE d0 + (StepUnit - (d0 % StepUnit))
    ELSE d0

\* Lines 74-79: grid-step rounding (d0 # 0).
RoundDt0(d0) ==
    IF PyMod(MinutesPerDay, d0) # 0
    THEN IF d0 > MaxStep THEN MaxStep
         ELSE LET remainder == d0 % StepUnit
              IN  IF remainder > 2 THEN d0 + (StepUnit - remainder)
                  ELSE d0 - remainder
    ELSE d0

\* Mutant of ExceedsGap: the check is made on the rounded grid step.
ExceedsGapAfterRounding(d0, gap) == d0 # 0 /\ RoundDt0(d0) > gap

\* Line 70: the sparsity check.
ExceedsGap(d0, gap) == d0 > gap

\* Mutant of NDays: the day count is truncated instead of rounded up.
NDaysFloor(t) == ((t[Len(t)] - t[1]) \div SecondsPerDay) + 1

\* Line 82
NDays(t) == CeilDiv(t[Len(t)] - t[1], SecondsPerDay) + 1

\* Line 83: np.arange(0, ndays*24*60, dt0), in minutes.
Dti(n, d0) ==
    [k \in 1..(IF d0 > 0 THEN CeilDiv(n * MinutesPerDay, d0) ELSE 0) |->
        (k - 1) * d0]

\* Line 85: tr.min().replace(hour=0, minute=0, second=0)
Mind(t) ==
    LET m == CHOOSE a \in {t[i] : i \in DOMAIN t} :
                 \A i \in DOMAIN t : a <= t[i]
    IN  m - (m % SecondsPerDay)

\* Line 86
TimeOut(t, n, d0) ==
    LET dti == Dti(n, d0)
        mind == Mind(t)
    IN  [k \in DOMAIN dti |-> mind + dti[k] * SecondsPerMinute]

\* Lines 91-95: np.interp at one point x: the boundary value outside the
\* nodes, the node's value at a node, linear in between.
InterpAt(x, xp, fp) ==
    LET n == Len(xp)
    IN  IF x <= xp[1] THEN <<fp[1], 1>>
        ELSE IF x >= xp[n] THEN <<fp[n], 1>>
        ELSE LET j == CHOOSE i \in 1..(n - 1) : xp[i] <= x /\ x < xp[i + 1]
             IN  IF x = xp[j] THEN <<fp[j], 1>>
                 ELSE <<fp[j] * (xp[j + 1] - xp[j])
                          + (fp[j + 1] - fp[j]) * (x - xp[j]),
                        xp[j + 1] - xp[j]>>

Interp(x, xp, fp) == [k \in DOMAIN x |-> InterpAt(x[k], xp, fp)]

\* Lines 99-105: the glucose column of `new` after the gaps are masked.
MaskGaps(x, y, t, d, gap) ==
    LET gap_start == {i \in DOMAIN d : d[i] > gap * SecondsPerMinute}
    IN  [k \in DOMAIN y |->
            IF \E i \in gap_start : x[k] > t[i] /\ x[k] < t[i + 1]
            THEN <<0, 0>> ELSE y[k]]

\* Line 109: interp.reshape((ndays, -1)): the flat vector cut into ndays rows.
Reshape(y, n) ==
    LET cols == Len(y) \div n
    IN  [r \in 1..n |-> SubSeq(y, (r - 1) * cols + 1, r * cols)]

\* Mutant of ActualDates: the dates start at the first observation instead of
\* at its midnight.
ActualDatesFromFirst(t, n) ==
    LET first == CHOOSE a \in {t[i] : i \in DOMAIN t} :
                     \A i \in DOMAIN t : a <= t[i]
    IN  [r \in 1..n |-> first + (r - 1) * SecondsPerDay]

\* Line 110: pd.date_range(start=mind.normalize(), periods=ndays, freq='D')
ActualDates(t, n) ==
    LET mind == Mind(t)
    IN  [r \in 1..n |-> (mind - (mind % SecondsPerDay)) + (r - 1) * SecondsPerDay]

---------------------------------------------------------------------------
\* The exceptions a call can end with.
ErrNanToInt == "ValueError: cannot convert float NaN to integer"
ErrTooSparse == "ValueError: Identified measurements > inter_gap minutes apart"
ErrZeroDivision == "ZeroDivisionError"
ErrIndex == "IndexError: index -1 is out of bounds for axis 0 with size 0"
ErrReshape == "ValueError: cannot reshape array"

\* The locals of a call that has not assigned any of them.
Unset ==
    [pc |-> "raised", err |-> "", tr |-> <<>>, g |-> <<>>, time_diffs |-> <<>>,
     dt0_in |-> None, dt0 |-> None, ndays |-> 0, time_out |-> <<>>,
     interp |-> <<>>, new |-> <<>>, gd2d |-> <<>>, actual_dates |-> <<>>]

\* Lines 27-48: g and tr before the sort.
Raw(d, zone) ==
    LET sel == Selected(d, zone)
        g0 == [i \in DOMAIN sel |-> sel[i].gl]
        tr0 == Values(sel)
    IN  [tr |-> BadConv(tr0, tr0), g |-> BadConv(tr0, g0)]

\* Lines 50-65: g, tr and time_diffs after the sort under index order p and
\* the duplicate collapse.
Clean(raw, p) ==
    LET t == [i \in DOMAIN raw.tr |-> raw.tr[p[i]]]
        x == [i \in DOMAIN raw.g |-> raw.g[p[i]]]
    IN  [tr |-> Dedup(t, t), g |-> Dedup(t, x), time_diffs |-> Diff(Dedup(t, t))]

\* Lines 81-112: grid, interpolation, gap masking and reshape.
Grid(c, d0in, d0, gap) ==
    LET n == NDays(c.tr)
        x == TimeOut(c.tr, n, d0)
        y == Interp(x, c.tr, c.g)
        base == [c EXCEPT !.dt0_in = d0in, !.dt0 = d0, !.ndays = n,
                          !.time_out = x, !.interp = y,
                          !.new = MaskGaps(x, y, c.tr, c.time_diffs, gap)]
    IN  IF Len(y) = 0 \/ Len(y) % n # 0
        THEN [base EXCEPT !.err = ErrReshape]
        ELSE [base EXCEPT !.pc = "returned", !.gd2d = Reshape(y, n),
                          !.actual_dates = ActualDates(c.tr, n)]

\* Lines 26-112: the locals at the end of a call on the rows `raw`, sorted
\* (where the code sorts) under index order p.
Run(raw, d0arg, gap, p) ==
    LET k == Clean(raw, p)
        c == [Unset EXCEPT !.tr = k.tr, !.g = k.g, !.time_diffs = k.time_diffs]
    IN  IF d0arg = None /\ Len(c.time_diffs) = 0
        THEN [c EXCEPT !.err = ErrNanToInt]
        ELSE
        LET d0in == IF d0arg = None
                    THEN RoundHalfEven(Median2(c.time_diffs), 2 * SecondsPerMinute)
                    ELSE d0arg
        IN  IF ExceedsGap(d0in, gap)
            THEN [c EXCEPT !.err = ErrTooSparse, !.dt0_in = d0in]
            ELSE IF d0in = 0
            THEN [c EXCEPT !.err = ErrZeroDivision, !.dt0_in = d0in]
            ELSE IF Len(c.tr) = 0
            THEN [c EXCEPT !.err = ErrIndex, !.dt0_in = d0in,
                           !.dt0 = RoundDt0(d0in)]
            ELSE Grid(c, d0in, RoundDt0(d0in), gap)

---------------------------------------------------------------------------
\* quantile_glu.

\* np.nanquantile(x, t/100) with the default linear method, x the non-NaN
\* values of one group: the value at the virtual index t*(n-1)/100 of the
\* sorted values, NaN for an empty group.
NanQuantile(x, t) ==
    LET s == SortSeq(SelectSeq(x, LAMBDA v : v # NaN), LAMBDA a, b : a < b)
        n == Len(s)
    IN  IF n = 0 THEN <<0, 0>>
        ELSE LET lo == (t * (n - 1)) \div 100 + 1
                 fr == (t * (n - 1)) % 100
                 hi == IF lo < n THEN lo + 1 ELSE n
             IN  <<100 * s[lo] + fr * (s[hi] - s[lo]), 100>>

\* The group keys of groupby("id"), in increasing order.
GroupKeys(d) ==
    LET ids == {d[i].id : i \in DOMAIN d}
        F[T \in SUBSET ids] ==
            IF T = {} THEN <<>>
            ELSE LET m == CHOOSE a \in T : \A b \in T : a <= b
                 IN  <<m>> \o F[T \ {m}]
    IN  F[ids]

\* Mutant of GroupValues: the values are not grouped by id.
GroupValuesAll(d, a) == [i \in DOMAIN d |-> d[i].gl]

\* The glucose values of the group of id a.
GroupValues(d, a) ==
    LET rows == SelectSeq(d, LAMBDA r : r.id = a)
    IN  [i \in DOMAIN rows |-> rows[i].gl]

\* Lines 174-183: df.groupby("id")["gl"].agg(...): one row per id, ordered by
\* id, holding the quantiles of the glucose values of that id's rows.
QuantileGluOf(d, qs) ==
    LET keys == GroupKeys(d)
    IN  [k \in DOMAIN keys |->
            [id |-> keys[k],
             X |-> [t \in {qs[j] : j \in DOMAIN qs} |->
                       NanQuantile(GroupValues(d, keys[k]), t)]]]

---------------------------------------------------------------------------
Init ==
    /\ df \in Frames
    /\ pc = "called"
    /\ fn = ""
    /\ dt0_arg = None
    /\ inter_gap = DefaultInterGap
    /\ tz = "UTC"
    /\ err = ""
    /\ tr = <<>>
    /\ g = <<>>
    /\ time_diffs = <<>>
    /\ dt0_in = None
    /\ dt0 = None
    /\ ndays = 0
    /\ time_out = <<>>
    /\ interp = <<>>
    /\ new = <<>>
    /\ gd2d = <<>>
    /\ actual_dates = <<>>
    /\ quantiles = <<>>
    /\ result = <<>>

\* cgms2daybyday(df, dt0, inter_gap, tz).  Line 28 stores the parsed column back
\* into the caller's frame; df holds the column as parsed, so it does not change.
Cgms2DayByDay ==
    /\ pc = "called"
    /\ \E d0arg \in Dt0Args, gap \in InterGaps, zone \in Tzs :
         \E p \in SortedIndx(Raw(df, zone).tr) :
            \E r \in {Run(Raw(df, zone), d0arg, gap, p)} :
                /\ fn' = "cgms2daybyday"
                /\ dt0_arg' = d0arg
                /\ inter_gap' = gap
                /\ tz' = zone
                /\ pc' = r.pc
                /\ err' = r.err
                /\ tr' = r.tr
                /\ g' = r.g
                /\ time_diffs' = r.time_diffs
                /\ dt0_in' = r.dt0_in
                /\ dt0' = r.dt0
                /\ ndays' = r.ndays
                /\ time_out' = r.time_out
                /\ interp' = r.interp
                /\ new' = r.new
                /\ gd2d' = r.gd2d
                /\ actual_dates' = r.actual_dates
    /\ UNCHANGED <<df, quantiles, result>>

\* quantile_glu(df, quantiles)
QuantileGlu ==
    /\ pc = "called"
    /\ \E qs \in QuantileArgs :
         /\ quantiles' = qs
         /\ result' = QuantileGluOf(df, qs)
    /\ fn' = "quantile_glu"
    /\ pc' = "returned"
    /\ UNCHANGED <<df, dt0_arg, inter_gap, tz, err, tr, g, time_diffs, dt0_in,
                   dt0, ndays, time_out, interp, new, gd2d, actual_dates>>

Next == Cgms2DayByDay \/ QuantileGlu

Spec == Init /\ [][Next]_vars

---------------------------------------------------------------------------
\* Shorthands for the claims.

Cgms == fn = "cgms2daybyday"
Returned == Cgms /\ pc = "returned"
Ended == Cgms /\ pc # "called"

IsNaN(v) == v[2] = 0
Day(t) == t \div SecondsPerDay
TimeOfDay(t) == t % SecondsPerDay
Cols == Len(gd2d[1])
\* The cell of the returned matrix for the k-th grid timestamp.
Cell(k) == gd2d[((k - 1) \div Cols) + 1][((k - 1) % Cols) + 1]

(* C1: in the returned matrix, every cell whose grid timestamp lies strictly
   between two consecutive cleaned observations that are more than inter_gap
   minutes apart is NaN. *)
C1_GapCellsAreNaN ==
    Returned =>
        \A i \in DOMAIN time_diffs :
            time_diffs[i] > inter_gap * SecondsPerMinute =>
                \A k \in DOMAIN time_out :
                    (tr[i] < time_out[k] /\ time_out[k] < tr[i + 1])
                        => IsNaN(Cell(k))

(* C2: for every timestamp of the selected subject's rows, the cleaned series
   used as interpolation nodes holds exactly one observation at it, whose
   glucose value is that of the last such row in arrival order. *)
C2_DuplicateKeepsLast ==
    Returned =>
        LET sel == Selected(df, tz)
        IN  \A i \in DOMAIN sel :
                LET last == CHOOSE j \in DOMAIN sel :
                                /\ sel[j].time = sel[i].time
                                /\ \A m \in DOMAIN sel :
                                       sel[m].time = sel[i].time => m <= j
                    at == {n \in DOMAIN tr : tr[n] = sel[i].time.utc}
                IN  /\ Cardinality(at) = 1
                    /\ \A n \in at : g[n] = sel[last].gl

(* C4: whenever cgms2daybyday returns, the resolved dt0 is a positive number
   of minutes that divides 1440. *)
C4_GridDivisibility ==
    Returned => (dt0 > 0 /\ MinutesPerDay % dt0 = 0)

\* C4's case: a returned call whose dt0 was derived from the data and then
\* changed by the rounding step.
C4_Witness ==
    Returned /\ dt0_arg = None /\ dt0 # dt0_in

(* C5: with no dt0 supplied and a rounded median time difference above
   inter_gap, the call raises the too-sparse error and returns nothing: the
   check is on the derived value, before the grid-step rounding. *)
C5_TooSparseFails ==
    (/\ Ended
     /\ dt0_arg = None
     /\ Len(time_diffs) > 0
     /\ RoundHalfEven(Median2(time_diffs), 2 * SecondsPerMinute) > inter_gap)
        => (/\ pc = "raised"
            /\ err = ErrTooSparse
            /\ dt0 = None
            /\ gd2d = <<>>
            /\ actual_dates = <<>>)

\* C5's case: the derived value is above inter_gap and the rounding step
\* would have brought it below.
C5_Witness ==
    /\ Ended
    /\ dt0_arg = None
    /\ err = ErrTooSparse
    /\ dt0_in > inter_gap
    /\ RoundDt0(dt0_in) <= inter_gap

(* C6: every call either returns or raises the one declared error. *)
C6_Total ==
    Ended => (pc = "returned" \/ err = ErrTooSparse)

\* What the caller sees of a call that ended with the locals r: the returned
\* triple, or the exception (whose message, for the too-sparse error, names
\* the derived dt0).
Outcome(r) ==
    IF r.pc = "returned"
    THEN [pc |-> "returned", err |-> "", msg |-> None, gd2d |-> r.gd2d,
          actual_dates |-> r.actual_dates, dt0 |-> r.dt0]
    ELSE [pc |-> "raised", err |-> r.err,
          msg |-> IF r.err = ErrTooSparse THEN r.dt0_in ELSE None,
          gd2d |-> <<>>, actual_dates |-> <<>>, dt0 |-> None]

\* Every outcome a call with these arguments can have.
Outcomes(d, d0arg, gap, zone) ==
    {Outcome(Run(Raw(d, zone), d0arg, gap, p)) :
        p \in SortedIndx(Raw(d, zone).tr)}

\* The data frames with the rows of d in another order.
Reorderings(d) ==
    {[i \in DOMAIN d |-> d[q[i]]] :
        q \in {f \in [DOMAIN d -> DOMAIN d] :
                  \A i, j \in DOMAIN d : i # j => f[i] # f[j]}}

ThisOutcome ==
    Outcome([pc |-> pc, err |-> err, dt0_in |-> dt0_in, gd2d |-> gd2d,
             actual_dates |-> actual_dates, dt0 |-> dt0])

\* The rows that survive the dropna: a parsable time and a glucose value.
Usable(d) == SelectSeq(d, LAMBDA r : r.time # NaT /\ r.gl # NaN)

\* The usable rows belong to one subject, and usable rows that share a
\* timestamp share their glucose value.
OrderFree(d) ==
    LET u == Usable(d)
    IN  /\ Cardinality({u[i].id : i \in DOMAIN u}) <= 1
        /\ \A i, j \in DOMAIN u : u[i].time = u[j].time => u[i].gl = u[j].gl

(* C3 as claimed: a call on any permutation of the rows, with the same dt0,
   inter_gap and tz, has the outcome of the call on the rows as given. *)
C3_OrderIndependent ==
    Ended =>
        \A e \in Reorderings(df) :
            Outcomes(e, dt0_arg, inter_gap, tz) = {ThisOutcome}

(* C3 as amended: when the usable rows belong to one subject and usable rows
   sharing a timestamp share their glucose value, a call on any permutation of
   the rows, with the same dt0, inter_gap and tz, has the outcome of the call
   on the rows as given. *)
C3_OrderIndependentAmended ==
    (Ended /\ OrderFree(df)) =>
        \A e \in Reorderings(df) :
            Outcomes(e, dt0_arg, inter_gap, tz) = {ThisOutcome}

\* C3's case: three distinct timestamps arrive out of order, are sorted, and
\* the call returns.
C3_Witness ==
    /\ Returned
    /\ OrderFree(df)
    /\ Len(tr) = 3
    /\ \E i \in 1..(Len(df) - 1) : df[i].time > df[i + 1].time

(* C7 as claimed: the returned matrix has exactly one row for each calendar
   day from the day of the earliest cleaned observation through the day of
   the latest, and none for a later day. *)
C7_RowRange ==
    Returned =>
        /\ Len(gd2d) = Day(tr[Len(tr)]) - Day(tr[1]) + 1
        /\ \A r \in DOMAIN gd2d : Day(actual_dates[r]) = Day(tr[1]) + (r - 1)

(* C7 as amended: the rows of the returned matrix are consecutive calendar
   days starting with the day of the earliest cleaned observation; they cover
   the day of the latest one, and go one day past it exactly when the latest
   observation's time of day is later than the earliest's. *)
C7_RowRangeAmended ==
    Returned =>
        /\ Len(gd2d) = Day(tr[Len(tr)]) - Day(tr[1]) + 1
                       + (IF TimeOfDay(tr[Len(tr)]) > TimeOfDay(tr[1])
                          THEN 1 ELSE 0)
        /\ \A r \in DOMAIN gd2d : Day(actual_dates[r]) = Day(tr[1]) + (r - 1)

\* C7's case: the cleaned observations span two calendar days and the matrix
\* has a row for each, and no more.
C7_Witness ==
    /\ Returned
    /\ Day(tr[Len(tr)]) = Day(tr[1]) + 1
    /\ Len(gd2d) = 2

(* C8: the returned matrix has 1440/dt0 columns in every row, rows times
   columns is the number of grid timestamps, row r holds the r-th run of the
   flat vector, the day-start vector has one entry per row, and entry r is the
   midnight of the first observation's day plus r - 1 days. *)
C8_ReshapeInvariant ==
    Returned =>
        /\ \A r \in DOMAIN gd2d : Len(gd2d[r]) * dt0 = MinutesPerDay
        /\ Len(gd2d) * Cols = Len(time_out)
        /\ \A k \in DOMAIN interp : Cell(k) = interp[k]
        /\ Len(actual_dates) = Len(gd2d)
        /\ \A r \in DOMAIN actual_dates :
               actual_dates[r] = (Day(tr[1]) + (r - 1)) * SecondsPerDay

\* C8's case: a matrix of more than one row whose first observation is not
\* at midnight.
C8_Witness ==
    /\ Returned
    /\ Len(gd2d) > 1
    /\ TimeOfDay(tr[1]) # 0

(* C10 as claimed: the resolved dt0 of a returned call is at least the dt0
   that entered the rounding step. *)
C10_OnlyCoarsens ==
    (Returned /\ dt0_in > 0 /\ dt0_in <= inter_gap) => dt0 >= dt0_in

(* C10 as amended: the rounding step leaves a dt0 that divides 1440 as it is,
   replaces any other dt0 above 20 by 20, and any other dt0 up to 20 by a
   multiple of 5 at most 2 minutes away, below dt0 (finer) or above it. *)
C10_RoundingAmended ==
    (Returned /\ dt0_in > 0 /\ dt0_in <= inter_gap) =>
        /\ MinutesPerDay % dt0_in = 0 => dt0 = dt0_in
        /\ (MinutesPerDay % dt0_in # 0 /\ dt0_in > MaxStep) => dt0 = MaxStep
        /\ (MinutesPerDay % dt0_in # 0 /\ dt0_in <= MaxStep) =>
               /\ dt0 % StepUnit = 0
               /\ dt0 - dt0_in <= 2
               /\ dt0_in - dt0 <= 2

\* C10's case: a returned call whose grid is finer than the dt0 that entered
\* the rounding step.
C10_Witness ==
    Returned /\ dt0_in <= MaxStep /\ dt0 < dt0_in

---------------------------------------------------------------------------
Quantiled == fn = "quantile_glu"

\* The non-NaN glucose values of the rows of subject a, in arrival order.
Own(a) ==
    LET rows == SelectSeq(df, LAMBDA r : r.id = a /\ r.gl # NaN)
    IN  [i \in DOMAIN rows |-> rows[i].gl]

(* C9: quantile_glu returns one row per distinct subject id of the input, with
   one column per requested percentage; the value is the percentile of the
   subject's own non-NaN glucose values (X0 the minimum, X100 the maximum, X50
   the median, the others in between and non-decreasing), and is what the
   function returns for that subject's rows alone. *)
C9_QuantilePerSubject ==
    Quantiled =>
        /\ {result[k].id : k \in DOMAIN result} = {df[i].id : i \in DOMAIN df}
        /\ \A k, m \in DOMAIN result : result[k].id = result[m].id => k = m
        /\ \A k \in DOMAIN result :
            LET X == result[k].X
                own == Own(result[k].id)
                vals == {own[i] : i \in DOMAIN own}
            IN  /\ DOMAIN X = {quantiles[j] : j \in DOMAIN quantiles}
                /\ <<result[k]>> =
                       QuantileGluOf(SelectSeq(df, LAMBDA r : r.id = result[k].id),
                                     quantiles)
                /\ vals = {} => \A q \in DOMAIN X : IsNaN(X[q])
                /\ vals # {} =>
                    /\ \A q \in DOMAIN X :
                        /\ ~IsNaN(X[q])
                        /\ \A v \in vals : (\A w \in vals : v <= w) => v * X[q][2] <= X[q][1]
                        /\ \A v \in vals : (\A w \in vals : v >= w) => v * X[q][2] >= X[q][1]
                        /\ \A q2 \in DOMAIN X :
                               q <= q2 => X[q][1] * X[q2][2] <= X[q2][1] * X[q][2]
                    /\ 0 \in DOMAIN X =>
                           \E v \in vals : /\ \A w \in vals : v <= w
                                           /\ X[0][1] = v * X[0][2]
                    /\ 100 \in DOMAIN X =>
                           \E v \in vals : /\ \A w \in vals : v >= w
                                           /\ X[100][1] = v * X[100][2]
                    /\ 50 \in DOMAIN X =>
                           2 * X[50][1] = Median2(own) * X[50][2]

\* C9's case: two subjects with different glucose values, one of them with a
\* NaN among its values, and all five default percentages requested.
C9_Witness ==
    /\ Quantiled
    /\ Len(result) = 2
    /\ Len(quantiles) = 5
    /\ result[1].X[50] # result[2].X[50]
    /\ \E i \in DOMAIN df : df[i].gl = NaN
    /\ \E k \in DOMAIN result : result[k].X[0] # result[k].X[100]

====
